---- MODULE Spec2Model ----
(***************************************************************************)
(* VibeArxivDiff (src/app.py): the "Generate Diff PDF" request pipeline.   *)
(*                                                                         *)
(* One request is modelled from the button click to the end of the         *)
(* handler.  The remote repository, the two external tools and the         *)
(* contents of the fetched archives are the environment: every outcome     *)
(* they can have is a nondeterministic choice.  The file system under the  *)
(* working root is modelled by name: each revision directory maps a name   *)
(* to the entry stored under it.                                           *)
(***************************************************************************)
EXTENDS Integers, FiniteSets, Sequences, TLC

\* ------------------------------------------------------------------ bounds
\* largest number of members a fetched archive carries
MaxMembers == 2
\* exit codes of the external tools range over 0..MaxExit
MaxExit == 1

\* ------------------------------------------------------------- file system
Revs == {"old", "new"}

MainTex == [stem |-> "main", ext |-> "tex"]
DiffTex == [stem |-> "diff", ext |-> "tex"]
DiffPdf == [stem |-> "diff", ext |-> "pdf"]
Names == {MainTex, DiffTex, DiffPdf}
\* the value find_main_tex never returns: no path
NoPath == [stem |-> "", ext |-> ""]

\* file.endswith(".tex")
endswith_tex(n) == n.ext = "tex"

\* An entry of a directory.  marker: the content holds \begin{document};
\* access: open() on it succeeds (FALSE: it raises PermissionError);
\* ancient: its mtime lies before 1980 (tar restores the member's mtime);
\* origin: who wrote the current content.
Entry(k, m, a, t, o) == [kind |-> k, marker |-> m, access |-> a, ancient |-> t, origin |-> o]
Absent == Entry("absent", FALSE, FALSE, FALSE, "none")
File(m, o) == Entry("file", m, TRUE, FALSE, o)

\* what a member of a fetched archive can be
MemberEntries ==
    { Entry("file", TRUE, TRUE, FALSE, "archive"),    \* readable, has the marker
      Entry("file", FALSE, TRUE, FALSE, "archive"),   \* readable, no marker
      Entry("file", TRUE, FALSE, FALSE, "archive"),   \* has the marker, open() fails
      Entry("file", FALSE, TRUE, TRUE, "archive"),    \* readable, mtime before 1980
      Entry("dir", FALSE, TRUE, FALSE, "archive") }   \* a directory

EmptyTree == [n \in Names |-> Absent]
Members(tree) == {n \in Names : tree[n].kind # "absent"}
Archives ==
    {t \in [Names -> MemberEntries \cup {Absent}] : Cardinality(Members(t)) <= MaxMembers}

\* What urlopen(...).read() yields for one revision:
\*   error   - URLError / HTTPError
\*   tar     - a valid archive with the members of tree
\*   flat    - not an archive (tarfile.open raises ReadError); marker tells
\*             whether the stream holds \begin{document}
\*   corrupt - opens as an archive, extraction raises another exception
Response(k, t, m) == [kind |-> k, tree |-> t, marker |-> m]
NoResponse == Response("none", EmptyTree, FALSE)
Responses ==
    {Response("error", EmptyTree, FALSE), Response("corrupt", EmptyTree, FALSE)}
    \cup {Response("flat", EmptyTree, m) : m \in BOOLEAN}
    \cup {Response("tar", t, FALSE) : t \in Archives}

NoDir == [exists |-> FALSE, tree |-> EmptyTree]
Dir(t) == [exists |-> TRUE, tree |-> t]

\* os.walk enumerates a directory in an order the file system chooses
Orders == {s \in [1..Cardinality(Names) -> Names] : \A i, j \in 1..Cardinality(Names) : s[i] = s[j] => i = j}

\* ------------------------------------------------------------------- state
VARIABLES
    pc,          \* position of the handler
    request,     \* the three text inputs
    temp_dir,    \* the working root exists
    created,     \* the request created a working root
    response,    \* per revision, the byte stream fetched
    fetched,     \* per revision, number of urlopen calls
    archive,     \* per revision, v{version}.tar.gz exists in the working root
    dirs,        \* per revision, the revision directory
    tex,         \* per revision, the path find_main_tex returned
    diff_exit,   \* whether latexdiff ran, and its exit status
    build_exit,  \* whether latexmk ran, and its exit status
    rendered,    \* latexmk wrote diff.pdf in this request
    exc,         \* exception propagating out of the with block
    failedAt,    \* the step that raised it
    ui,          \* what the page shows
    bundle       \* names stored in the fallback zip

vars == <<pc, request, temp_dir, created, response, fetched, archive, dirs, tex,
          diff_exit, build_exit, rendered, exc, failedAt, ui, bundle>>

Ids == {"", "2303.00096"}
OldVersions == {"", "1"}
NewVersions == {"", "2"}

\* a subprocess that has not run / that ran and exited with code c
NotRun == [ran |-> FALSE, code |-> 0]
Exited(c) == [ran |-> TRUE, code |-> c]

\* the step that raised, and the revision it was working on
Fail(s, r) == [step |-> s, rev |-> r]
NoFail == Fail("none", "none")

NoUi == [label |-> "", downloads |-> {}, error |-> FALSE, warning |-> FALSE,
         log |-> FALSE, served |-> "none"]

Init ==
    /\ pc = "Idle"
    /\ request = [arxiv_id |-> "", v1 |-> "", v2 |-> ""]
    /\ temp_dir = FALSE
    /\ created = FALSE
    /\ response = [r \in Revs |-> NoResponse]
    /\ fetched = [r \in Revs |-> 0]
    /\ archive = [r \in Revs |-> FALSE]
    /\ dirs = [r \in Revs |-> NoDir]
    /\ tex = [r \in Revs |-> NoPath]
    /\ diff_exit = NotRun
    /\ build_exit = NotRun
    /\ rendered = FALSE
    /\ exc = "none"
    /\ failedAt = NoFail
    /\ ui = NoUi
    /\ bundle = {}

\* ---------------------------------------------------------- pure functions
\* download_and_extract: the effect of one call on the revision's archive
\* file and directory, and the exception it raises.
download_and_extract_mkdir_first(resp) ==
    CASE resp.kind = "error" ->
           [exc |-> "Exception", step |-> "fetch", archive |-> FALSE, dir |-> Dir(EmptyTree)]
      [] resp.kind = "corrupt" ->
           [exc |-> "Exception", step |-> "extract", archive |-> TRUE, dir |-> Dir(EmptyTree)]
      [] resp.kind = "tar" ->
           [exc |-> "none", step |-> "none", archive |-> FALSE, dir |-> Dir(resp.tree)]
      [] OTHER ->
           [exc |-> "none", step |-> "none", archive |-> FALSE,
            dir |-> Dir([EmptyTree EXCEPT ![MainTex] = File(resp.marker, "stream")])]

download_and_extract_keep_archive(resp) ==
    CASE resp.kind = "error" ->
           [exc |-> "Exception", step |-> "fetch", archive |-> FALSE, dir |-> NoDir]
      [] resp.kind = "corrupt" ->
           [exc |-> "Exception", step |-> "extract", archive |-> TRUE, dir |-> Dir(EmptyTree)]
      [] resp.kind = "tar" ->
           [exc |-> "none", step |-> "none", archive |-> TRUE, dir |-> Dir(resp.tree)]
      [] OTHER ->
           [exc |-> "none", step |-> "none", archive |-> FALSE,
            dir |-> Dir([EmptyTree EXCEPT ![MainTex] = File(resp.marker, "stream")])]

download_and_extract(resp) ==
    CASE resp.kind = "error" ->
           \* urlopen raises before the archive file is opened for writing
           [exc |-> "Exception", step |-> "fetch", archive |-> FALSE, dir |-> NoDir]
      [] resp.kind = "corrupt" ->
           \* makedirs done, extractall raises something other than ReadError
           [exc |-> "Exception", step |-> "extract", archive |-> TRUE, dir |-> Dir(EmptyTree)]
      [] resp.kind = "tar" ->
           \* extractall, then os.remove(archive_path)
           [exc |-> "none", step |-> "none", archive |-> FALSE, dir |-> Dir(resp.tree)]
      [] OTHER ->
           \* ReadError: shutil.move(archive_path, version_dir/main.tex)
           [exc |-> "none", step |-> "none", archive |-> FALSE,
            dir |-> Dir([EmptyTree EXCEPT ![MainTex] = File(resp.marker, "stream")])]

\* find_main_tex over the files of a tree, visited in the given order.
\* Directories are never in os.walk's file list.
RECURSIVE walk(_, _, _)
walk(tree, order, i) ==
    IF i > Len(order) THEN NoPath
    ELSE LET file == order[i] IN
         IF tree[file].kind = "file" /\ endswith_tex(file)
         THEN IF ~tree[file].access THEN walk(tree, order, i + 1)      \* except: continue
              ELSE IF tree[file].marker THEN file                      \* return path
              ELSE walk(tree, order, i + 1)
         ELSE walk(tree, order, i + 1)

RECURSIVE walk_any_name(_, _, _)
walk_any_name(tree, order, i) ==
    IF i > Len(order) THEN NoPath
    ELSE LET file == order[i] IN
         IF tree[file].kind = "file"
         THEN IF ~tree[file].access THEN walk_any_name(tree, order, i + 1)
              ELSE IF tree[file].marker THEN file
              ELSE walk_any_name(tree, order, i + 1)
         ELSE walk_any_name(tree, order, i + 1)

find_main_tex_any_name(tree, order) == walk_any_name(tree, order, 1)

\* NoPath stands for raise FileNotFoundError
find_main_tex(tree, order) == walk(tree, order, 1)

\* subprocess.run(..., check=True) raises CalledProcessError on this code
check_ignored(code) == FALSE

check_true(code) == code # 0

\* open(path, "w") / open(path, "rb") succeeds on this entry
can_write(e) == e.kind = "absent" \/ (e.kind = "file" /\ e.access)
can_read(e) == e.kind = "file" /\ e.access

\* os.path.exists
exists(e) == e.kind # "absent"

\* zipfile.write fails on this entry: it cannot be opened, or its mtime
\* is before 1980 (ZIP has no such timestamps)
unzippable(e) == (e.kind = "file" /\ ~e.access) \/ (e.kind # "absent" /\ e.ancient)

\* shutil.make_archive(dir_v2, 'zip', dir_v2): the members of the zip
make_archive(tree) == {[name |-> n, origin |-> tree[n].origin] : n \in Members(tree)}

\* Lines 91-120: what the presenter does with the new revision directory.
present_no_else(tree) ==
    LET final_pdf == tree[DiffPdf] IN
    IF exists(final_pdf) /\ ~can_read(final_pdf)
    THEN [exc |-> "Exception", step |-> "pdf_read", label |-> "Processing", downloads |-> {},
          error |-> FALSE, log |-> FALSE, served |-> "none", bundle |-> {}]
    ELSE IF \E n \in Names : unzippable(tree[n])
    THEN [exc |-> "Exception", step |-> "bundle", label |-> "Compilation failed.", downloads |-> {},
          error |-> TRUE, log |-> FALSE, served |-> "none", bundle |-> {}]
    ELSE [exc |-> "none", step |-> "none", label |-> "Compilation failed.",
          downloads |-> IF exists(final_pdf) THEN {"pdf", "zip"} ELSE {"zip"},
          error |-> TRUE, log |-> TRUE,
          served |-> IF exists(final_pdf) THEN final_pdf.origin ELSE "none",
          bundle |-> make_archive(tree)]

present(tree) ==
    LET final_pdf == tree[DiffPdf] IN
    IF exists(final_pdf)
    THEN IF ~can_read(final_pdf)
         THEN \* open(final_pdf, "rb") raises before anything is shown
              [exc |-> "Exception", step |-> "pdf_read", label |-> "Processing", downloads |-> {},
               error |-> FALSE, log |-> FALSE, served |-> "none", bundle |-> {}]
         ELSE [exc |-> "none", step |-> "none", label |-> "Compilation successful!",
               downloads |-> {"pdf"}, error |-> FALSE, log |-> FALSE,
               served |-> final_pdf.origin, bundle |-> {}]
    ELSE IF \E n \in Names : unzippable(tree[n])
         THEN \* status and st.error are out, make_archive raises
              [exc |-> "Exception", step |-> "bundle", label |-> "Compilation failed.", downloads |-> {},
               error |-> TRUE, log |-> FALSE, served |-> "none", bundle |-> {}]
         ELSE [exc |-> "none", step |-> "none", label |-> "Compilation failed.",
               downloads |-> {"zip"}, error |-> TRUE, log |-> TRUE,
               served |-> "none", bundle |-> make_archive(tree)]

\* with tempfile.TemporaryDirectory(): leaving the block with exception e
\* (or "none") removes the working root
exit_removes_on_success(e) == e = "none"

exit_removes(e) == TRUE

\* the except clauses: the status label for an exception class
handler(e) ==
    CASE e = "FileNotFoundError" -> "Error locating files."
      [] e = "CalledProcessError" -> "latexdiff error."
      [] OTHER -> "Unexpected error."

\* ----------------------------------------------------------------- actions
Raise(e, step, rev) ==
    /\ exc' = e
    /\ failedAt' = Fail(step, rev)
    /\ pc' = "Exit"

\* st.button pressed: field check, status box, working root
Click ==
    /\ pc = "Idle"
    /\ \E id \in Ids, v1 \in OldVersions, v2 \in NewVersions :
         /\ request' = [arxiv_id |-> id, v1 |-> v1, v2 |-> v2]
         /\ IF id = "" \/ v1 = "" \/ v2 = ""
            THEN /\ ui' = [ui EXCEPT !.warning = TRUE]
                 /\ pc' = "Done"
                 /\ UNCHANGED <<temp_dir, created>>
            ELSE /\ ui' = [ui EXCEPT !.label = "Processing"]
                 /\ temp_dir' = TRUE
                 /\ created' = TRUE
                 /\ pc' = "DownloadOld"
    /\ UNCHANGED <<response, fetched, archive, dirs, tex, diff_exit, build_exit,
                   rendered, exc, failedAt, bundle>>

\* dir_v = download_and_extract(arxiv_id, v, temp_dir)
Download(rev, here, next) ==
    /\ pc = here
    /\ \E resp \in Responses :
         LET r == download_and_extract(resp) IN
         /\ response' = [response EXCEPT ![rev] = resp]
         /\ fetched' = [fetched EXCEPT ![rev] = @ + 1]
         /\ archive' = [archive EXCEPT ![rev] = r.archive]
         /\ dirs' = [dirs EXCEPT ![rev] = r.dir]
         /\ IF r.exc # "none"
            THEN Raise(r.exc, r.step, rev)
            ELSE pc' = next /\ UNCHANGED <<exc, failedAt>>
    /\ UNCHANGED <<request, temp_dir, created, tex, diff_exit, build_exit, rendered, ui, bundle>>

DownloadOld == Download("old", "DownloadOld", "DownloadNew")
DownloadNew == Download("new", "DownloadNew", "LocateOld")

\* tex_v = find_main_tex(dir_v)
Locate(rev, here, next) ==
    /\ pc = here
    /\ \E order \in Orders :
         LET path == find_main_tex(dirs[rev].tree, order) IN
         IF path = NoPath
         THEN Raise("FileNotFoundError", "locate", rev) /\ UNCHANGED tex
         ELSE /\ tex' = [tex EXCEPT ![rev] = path]
              /\ pc' = next
              /\ UNCHANGED <<exc, failedAt>>
    /\ UNCHANGED <<request, temp_dir, created, response, fetched, archive, dirs,
                   diff_exit, build_exit, rendered, ui, bundle>>

LocateOld == Locate("old", "LocateOld", "LocateNew")
LocateNew == Locate("new", "LocateNew", "Diff")

\* open(diff_tex_path, "w") and subprocess.run(["latexdiff", ...], check=True)
RunLatexdiff ==
    /\ pc = "Diff"
    /\ LET target == dirs["new"].tree[DiffTex]
           written(m) == [dirs EXCEPT !["new"].tree[DiffTex] = File(m, "diff")]
       IN  IF ~can_write(target)
           THEN /\ Raise("Exception", "diff_open", "new")
                /\ UNCHANGED <<dirs, diff_exit>>
           ELSE \/ /\ dirs' = written(FALSE)            \* executable not found
                   /\ Raise("FileNotFoundError", "diff_start", "new")
                   /\ UNCHANGED diff_exit
                \/ /\ dirs' = written(FALSE)            \* executable cannot be started
                   /\ Raise("Exception", "diff_start", "new")
                   /\ UNCHANGED diff_exit
                \/ \E code \in 0..MaxExit, m \in BOOLEAN :
                   /\ dirs' = written(m)
                   /\ diff_exit' = Exited(code)
                   /\ IF check_true(code)
                      THEN Raise("CalledProcessError", "diff_exit", "new")
                      ELSE pc' = "Build" /\ UNCHANGED <<exc, failedAt>>
    /\ UNCHANGED <<request, temp_dir, created, response, fetched, archive, tex,
                   build_exit, rendered, ui, bundle>>

\* subprocess.run(["latexmk", ...]) without check; the tool writes diff.pdf
\* or not, whatever its exit code
RunLatexmk ==
    /\ pc = "Build"
    /\ \/ /\ Raise("FileNotFoundError", "build_start", "new")
          /\ UNCHANGED <<dirs, build_exit, rendered>>
       \/ /\ Raise("Exception", "build_start", "new")
          /\ UNCHANGED <<dirs, build_exit, rendered>>
       \/ \E code \in 0..MaxExit, output \in BOOLEAN :
          LET ok == output /\ can_write(dirs["new"].tree[DiffPdf]) IN
          /\ build_exit' = Exited(code)
          /\ rendered' = ok
          /\ dirs' = IF ok THEN [dirs EXCEPT !["new"].tree[DiffPdf] = File(FALSE, "build")]
                     ELSE dirs
          /\ pc' = "Present"
          /\ UNCHANGED <<exc, failedAt>>
    /\ UNCHANGED <<request, temp_dir, created, response, fetched, archive, tex,
                   diff_exit, ui, bundle>>

\* if os.path.exists(final_pdf): ... else: ...
Present ==
    /\ pc = "Present"
    /\ LET p == present(dirs["new"].tree) IN
       /\ ui' = [ui EXCEPT !.label = p.label, !.downloads = p.downloads, !.error = p.error,
                           !.log = p.log, !.served = p.served]
       /\ bundle' = p.bundle
       /\ IF p.exc # "none"
          THEN Raise(p.exc, p.step, "new")
          ELSE pc' = "Exit" /\ UNCHANGED <<exc, failedAt>>
    /\ UNCHANGED <<request, temp_dir, created, response, fetched, archive, dirs, tex,
                   diff_exit, build_exit, rendered>>

\* the with block is left, normally or by an exception
ExitScope ==
    /\ pc = "Exit"
    /\ IF exit_removes(exc)
       THEN /\ temp_dir' = FALSE
            /\ archive' = [r \in Revs |-> FALSE]
            /\ dirs' = [r \in Revs |-> NoDir]
       ELSE UNCHANGED <<temp_dir, archive, dirs>>
    /\ pc' = IF exc = "none" THEN "Done" ELSE "Handle"
    /\ UNCHANGED <<request, created, response, fetched, tex, diff_exit, build_exit,
                   rendered, exc, failedAt, ui, bundle>>

\* except FileNotFoundError / CalledProcessError / Exception
Handle ==
    /\ pc = "Handle"
    /\ ui' = [ui EXCEPT !.label = handler(exc), !.error = TRUE]
    /\ pc' = "Done"
    /\ UNCHANGED <<request, temp_dir, created, response, fetched, archive, dirs, tex,
                   diff_exit, build_exit, rendered, exc, failedAt, bundle>>

Next ==
    \/ Click
    \/ DownloadOld
    \/ DownloadNew
    \/ LocateOld
    \/ LocateNew
    \/ RunLatexdiff
    \/ RunLatexmk
    \/ Present
    \/ ExitScope
    \/ Handle

Spec == Init /\ [][Next]_vars

\* ------------------------------------------------------------------ claims
ErrorLabels == {"Error locating files.", "latexdiff error.", "Unexpected error."}

\* n names an openable file of tree that ends in .tex and holds the marker
Match(tree, n) ==
    tree[n].kind = "file" /\ endswith_tex(n) /\ tree[n].access /\ tree[n].marker

HasTexFile(tree) == \E n \in Names : endswith_tex(n) /\ tree[n].kind = "file"

\* download_and_extract has returned for r and its directory is as it left it
Returned(r) ==
    IF r = "old" THEN pc \in {"DownloadNew", "LocateOld", "LocateNew", "Diff"}
    ELSE pc \in {"LocateOld", "LocateNew", "Diff"}

\* find_main_tex has returned or raised for r and the directory is as it saw it
Located(r) ==
    IF r = "old" THEN pc \in {"LocateNew", "Diff"} \/ (pc = "Exit" /\ failedAt.step = "locate")
    ELSE pc = "Diff" \/ (pc = "Exit" /\ failedAt = Fail("locate", "new"))

\* C1: a request that created a working root never reaches an except clause
\* or its end with the working root still present, whatever path it took.
C1_RootRemoved == pc \in {"Handle", "Done"} => ~temp_dir

C1_Witness == pc = "Done" /\ created /\ exc # "none" /\ ~temp_dir

\* C2: latexmk is started only after latexdiff exited 0; after a non-zero
\* exit of latexdiff the build tool is never started, nothing is offered for
\* download and the request ends with the label "latexdiff error.".
C2_BuildAfterDiff ==
    /\ (build_exit.ran \/ pc \in {"Build", "Present"} \/ failedAt.step = "build_start")
          => diff_exit = Exited(0)
    /\ (diff_exit.ran /\ diff_exit.code # 0)
          => /\ ~build_exit.ran
             /\ failedAt = Fail("diff_exit", "new")
             /\ exc = "CalledProcessError"
             /\ ui.downloads = {}
             /\ bundle = {}
             /\ (pc = "Done" => ui.label = "latexdiff error.")

C2_Witness == pc = "Done" /\ diff_exit.ran /\ diff_exit.code # 0 /\ ~build_exit.ran

\* C3: when the fetch of the old revision fails nothing is unpacked, no
\* revision directory and no archive file exists, the new revision is never
\* fetched and the request ends with an error and no download; no revision
\* is fetched more than once.
C3_OldFetchFailure ==
    /\ \A r \in Revs : fetched[r] <= 1
    /\ failedAt = Fail("fetch", "old")
          => /\ \A r \in Revs : ~dirs[r].exists /\ ~archive[r]
             /\ fetched["old"] = 1
             /\ fetched["new"] = 0
             /\ response["new"] = NoResponse
             /\ ui.downloads = {}
             /\ (pc = "Done" => ui.error /\ ui.label \in ErrorLabels)

C3_Witness == pc = "Done" /\ failedAt = Fail("fetch", "old") /\ ui.error

\* C4 (as claimed): once latexmk has run the presenter offers the final
\* artifact if diff.pdf exists and the fallback bundle with the log
\* otherwise, and the request does not raise.
C4_Original ==
    (pc = "Exit" /\ build_exit.ran)
       => /\ exc = "none"
          /\ exists(dirs["new"].tree[DiffPdf]) => ui.downloads = {"pdf"}
          /\ ~exists(dirs["new"].tree[DiffPdf]) => (ui.downloads = {"zip"} /\ ui.log)

\* the three outcomes a request can show: the final artifact alone, the
\* fallback bundle with the log, an error message with no download
OutcomeA == ui.downloads = {"pdf"} /\ ~ui.error /\ ~ui.log
OutcomeB == ui.downloads = {"zip"} /\ ui.log /\ bundle # {}
OutcomeC == ui.downloads = {} /\ ui.error /\ ~ui.log /\ ui.label \in ErrorLabels

C7_Original ==
    pc = "Present" => (exists(dirs["new"].tree[DiffPdf]) <=> rendered)

\* C8: find_main_tex raises not-found exactly when no openable file ending
\* in .tex holds the marker; otherwise it returns a file of the tree that
\* ends in .tex, opens and holds the marker, never the empty path; files
\* that fail to open do not make it fail.
C8_Locator ==
    \A r \in Revs :
       Located(r)
          => /\ failedAt = Fail("locate", r) <=> ~(\E n \in Names : Match(dirs[r].tree, n))
             /\ failedAt # Fail("locate", r)
                   => tex[r] # NoPath /\ tex[r] \in Names /\ Match(dirs[r].tree, tex[r])

C8_Witness ==
    /\ Located("old")
    /\ tex["old"] # NoPath
    /\ \E n \in Names : /\ endswith_tex(n)
                        /\ dirs["old"].tree[n].kind = "file"
                        /\ ~dirs["old"].tree[n].access

\* C9 (as claimed): when diff.pdf is absent after latexmk ran, the presenter
\* does not raise and offers a non-empty zip of the new revision directory
\* that holds the diff.tex written by this request.
C9_Original ==
    (pc = "Exit" /\ build_exit.ran /\ ~exists(dirs["new"].tree[DiffPdf]))
       => /\ exc = "none"
          /\ "zip" \in ui.downloads
          /\ bundle # {}
          /\ [name |-> DiffTex, origin |-> "diff"] \in bundle

\* C10 (as claimed): "Error locating files." only after the locator found
\* nothing, "latexdiff error." only after latexdiff exited non-zero, and
\* "Unexpected error." for a failure of every other step.
C10_Original ==
    (pc = "Done" /\ exc # "none")
       => /\ ui.label = "Error locating files." => failedAt.step = "locate"
          /\ ui.label = "latexdiff error."
                => (failedAt.step = "diff_exit" /\ diff_exit.ran /\ diff_exit.code # 0)
          /\ failedAt.step \notin {"locate", "diff_exit"} => ui.label = "Unexpected error."

====
